---- MODULE Spec2Model ----
(***************************************************************************)
(* Turn-taking orchestration of static/script.js: one record button, one   *)
(* shared MediaRecorder handle, one shared chunk buffer, one <audio>       *)
(* element and the speech-synthesis queue.  Every event-loop task of the   *)
(* script (click, getUserMedia settlement, recorder stop task, fetch       *)
(* settlement, play() settlement, audio ended/error, utterance end/error)  *)
(* is one action.                                                          *)
(*                                                                         *)
(* Strings: U+2026 (horizontal ellipsis) is written "~" and the warning    *)
(* sign prefix is written "(!) ", the module being ASCII.                  *)
(***************************************************************************)
EXTENDS Naturals, Integers, Sequences, FiniteSets, TLC

\* The user presses the record button (or, in SpecCalls, calls a global
\* function of the script directly) at most MaxInputs times.
MaxInputs == 3

\* SpecDeep lets the user press the button MaxInputsDeep times: enough for
\* two complete turns that overlap.
MaxInputsDeep == 4

\* A capture session is created per getUserMedia request; each request is
\* caused by a distinct user input, so the larger input bound (plus one, so
\* that the next identifier is always in range) suffices.
MaxSessions == IF MaxInputs > MaxInputsDeep THEN MaxInputs + 1 ELSE MaxInputsDeep + 1
Sessions == 1..MaxSessions

\* A field of the JSON body that is missing (or empty) is falsy.
Absent == ""
Truthy(v) == v # Absent

DefaultApology == "I'm having trouble connecting right now."
WarnApology == "(!) I'm having trouble connecting right now."
MicDenied == "(!) I can't access your microphone."
Greeting == "Hi! Tap the mic to talk."

\* Bodies a 2xx response may carry: any subset of the five fields.
AgentResponses ==
  [transcription : {Absent, "hello"},
   llm_text : {Absent, "hi there"},
   audio_url : {Absent, "/a.mp3"},
   fallback_audio_url : {Absent, "/fb.mp3"},
   fallback_text : {Absent, "Please try again."}]

NoData ==
  [transcription |-> Absent, llm_text |-> Absent, audio_url |-> Absent,
   fallback_audio_url |-> Absent, fallback_text |-> Absent]

\* What the backend round trip can produce.  error is the value of the
\* body's error field: "notjson" when the body does not parse, Absent when
\* the field is missing or empty.
HttpStatuses == {404, 500}
ErrorBodies == {"notjson", Absent, "quota exceeded"}
Outcomes ==
  [kind : {"ok"}, status : {200}, error : {Absent}, data : AgentResponses]
  \cup [kind : {"badjson"}, status : {200}, error : {"notjson"}, data : {NoData}]
  \cup [kind : {"http"}, status : HttpStatuses, error : ErrorBodies, data : {NoData}]
  \cup [kind : {"neterr"}, status : {0}, error : {Absent}, data : {NoData}]

NoOutcome == [kind |-> "none", status |-> 0, error |-> Absent, data |-> NoData]

VARIABLES
  mediaRecorder,  \* 0 (null) or the session whose MediaRecorder it holds
  chunks,         \* the shared buffer: sequence of sessions whose data it holds
  sess,           \* per session: position of its startRecording/onstop run
  blob,           \* per session: the chunks its onstop put in the Blob
  replyAudio,     \* the <audio> element: src, onended owner, playback state
  speech,         \* speechSynthesis queue of utterances
  hasSpeech,      \* "speechSynthesis" in window
  recordBtn,      \* [disabled, recording (class), pressed (aria-pressed)]
  micLabel,       \* micLabel.textContent
  statusText,     \* statusText.textContent
  statusDot,      \* classList of the status dot
  transcript,     \* children of the conversation log, <<role, text>>
  inputs,         \* number of user inputs so far
  event           \* the task that ran last, with its inputs and error message

vars == <<mediaRecorder, chunks, sess, blob, replyAudio, speech, hasSpeech,
          recordBtn, micLabel, statusText, statusDot, transcript, inputs, event>>

\* Everything the script owns (all but the input counter and the task record).
progVars == <<mediaRecorder, chunks, sess, blob, replyAudio, speech, hasSpeech,
              recordBtn, micLabel, statusText, statusDot, transcript>>

Event(op, s, outcome, msg) == [op |-> op, id |-> s, outcome |-> outcome, logged |-> msg]

\* MediaRecorder.state of the recorder of session s.
RecorderState(s) ==
  CASE sess[s] = "recording" -> "recording"
    [] sess[s] \in {"stopQueued", "fetch", "play", "done", "failed"} -> "inactive"
    [] OTHER -> "none"

IsRecording == mediaRecorder # 0 /\ RecorderState(mediaRecorder) = "recording"

\* setStatus(state, label): the classes the dot has afterwards.
setStatus(state) ==
  IF state = "recording" THEN {"recording"}
  ELSE IF state = "playing" THEN {"playing"}
  ELSE {}

\* The page once the script has run: no recorder, an empty buffer, the
\* greeting in the log.  The button, label and status start as the markup
\* leaves them: enabled, "Start Recording", idle.
Init ==
  /\ mediaRecorder = 0
  /\ chunks = <<>>
  /\ sess = [s \in Sessions |-> "none"]
  /\ blob = [s \in Sessions |-> <<>>]
  /\ replyAudio = [src |-> Absent, onended |-> 0, state |-> "empty"]
  /\ speech = <<>>
  /\ hasSpeech \in BOOLEAN
  /\ recordBtn = [disabled |-> FALSE, recording |-> FALSE, pressed |-> "unset"]
  /\ micLabel = "Start Recording"
  /\ statusText = "Ready"
  /\ statusDot = {"idle"}
  /\ transcript = <<<<"assistant", Greeting>>>>
  /\ inputs = 0
  /\ event = Event("load", 0, NoOutcome, Absent)


\* appendMessage(role, text): the log with one more bubble at its end.
appendMessage(log, role, text) == Append(log, <<role, text>>)

\* The identifier the next getUserMedia request (capture session) gets.
NextSession == 1 + Cardinality({s \in Sessions : sess[s] # "none"})

\* startRecording without its first line: the microphone is requested even
\* while the current recorder records.
startRecording_unguarded ==
  /\ sess' = [sess EXCEPT ![NextSession] = "pending"]
  /\ UNCHANGED <<recordBtn, micLabel, statusText, statusDot>>

\* startRecording up to its await: return if the current recorder is
\* recording, else request the microphone.
startRecording ==
  /\ sess' = IF IsRecording THEN sess
             ELSE [sess EXCEPT ![NextSession] = "pending"]
  /\ UNCHANGED <<recordBtn, micLabel, statusText, statusDot>>

\* stopRecording without its test of the recorder's state: whatever recorder
\* there is gets stopped and the UI is put in Processing.
stopRecording_unchecked ==
  IF mediaRecorder = 0
    THEN UNCHANGED <<sess, recordBtn, micLabel, statusText, statusDot>>
  ELSE /\ sess' = IF RecorderState(mediaRecorder) = "recording"
                    THEN [sess EXCEPT ![mediaRecorder] = "stopQueued"] ELSE sess
       /\ recordBtn' = [recordBtn EXCEPT !.recording = FALSE, !.pressed = "false"]
       /\ micLabel' = "Start Recording"
       /\ statusText' = "Processing~"
       /\ statusDot' = setStatus("idle")

\* stopRecording: stop the current recorder if it is recording.
stopRecording ==
  IF mediaRecorder = 0
    THEN UNCHANGED <<sess, recordBtn, micLabel, statusText, statusDot>>
  ELSE IF RecorderState(mediaRecorder) = "recording"
    THEN /\ sess' = [sess EXCEPT ![mediaRecorder] = "stopQueued"]
         /\ recordBtn' = [recordBtn EXCEPT !.recording = FALSE, !.pressed = "false"]
         /\ micLabel' = "Start Recording"
         /\ statusText' = "Processing~"
         /\ statusDot' = setStatus("idle")
  ELSE UNCHANGED <<sess, recordBtn, micLabel, statusText, statusDot>>

toggleRecording(forceStart) ==
  IF forceStart THEN startRecording
  ELSE IF mediaRecorder = 0 \/ RecorderState(mediaRecorder) # "recording"
    THEN startRecording
  ELSE stopRecording

\* The block every completion handler of the success path runs.
ResetUI ==
  /\ recordBtn' = [recordBtn EXCEPT !.disabled = FALSE, !.recording = FALSE]
  /\ micLabel' = "Start Recording"
  /\ statusText' = "Ready"
  /\ statusDot' = setStatus("idle")

\* The click listener of the record button; the user clicks while fewer
\* than limit inputs were made.
ClickWithin(limit) ==
  /\ inputs < limit
  /\ ~recordBtn.disabled
  /\ toggleRecording(FALSE)
  /\ inputs' = inputs + 1
  /\ event' = Event("click", 0, NoOutcome, Absent)
  /\ UNCHANGED <<mediaRecorder, chunks, blob, replyAudio, speech, hasSpeech, transcript>>

\* getUserMedia resolves: the rest of startRecording's try block.
GetUserMediaGranted(s) ==
  /\ sess[s] = "pending"
  /\ mediaRecorder' = s
  /\ chunks' = <<>>
  /\ sess' = [sess EXCEPT ![s] = "recording"]
  /\ recordBtn' = [recordBtn EXCEPT !.recording = TRUE, !.pressed = "true"]
  /\ micLabel' = "Stop Recording"
  /\ statusText' = "Listening~"
  /\ statusDot' = setStatus("recording")
  /\ event' = Event("granted", s, NoOutcome, Absent)
  /\ UNCHANGED <<blob, replyAudio, speech, hasSpeech, transcript, inputs>>

\* startRecording's catch block without its last line: no notice in the log.
GetUserMediaDenied_silent(s) ==
  /\ sess[s] = "pending"
  /\ sess' = [sess EXCEPT ![s] = "denied"]
  /\ statusText' = "Mic access denied."
  /\ statusDot' = setStatus("idle")
  /\ recordBtn' = [recordBtn EXCEPT !.recording = FALSE, !.pressed = "false"]
  /\ micLabel' = "Start Recording"
  /\ event' = Event("denied", s, NoOutcome, "Mic error")
  /\ UNCHANGED <<mediaRecorder, chunks, blob, replyAudio, speech, hasSpeech, inputs, transcript>>

\* getUserMedia rejects: startRecording's catch block.
GetUserMediaDenied(s) ==
  /\ sess[s] = "pending"
  /\ sess' = [sess EXCEPT ![s] = "denied"]
  /\ statusText' = "Mic access denied."
  /\ statusDot' = setStatus("idle")
  /\ recordBtn' = [recordBtn EXCEPT !.recording = FALSE, !.pressed = "false"]
  /\ micLabel' = "Start Recording"
  /\ transcript' = appendMessage(transcript, "assistant", MicDenied)
  /\ event' = Event("denied", s, NoOutcome, "Mic error")
  /\ UNCHANGED <<mediaRecorder, chunks, blob, replyAudio, speech, hasSpeech, inputs>>

\* The task MediaRecorder.stop() queues: dataavailable, then onstop up to
\* its fetch.
RecorderStopTask(s) ==
  /\ sess[s] = "stopQueued"
  /\ chunks' = Append(chunks, s)
  /\ blob' = [blob EXCEPT ![s] = chunks']
  /\ statusText' = "Processing~"
  /\ statusDot' = setStatus("idle")
  /\ sess' = [sess EXCEPT ![s] = "fetch"]
  /\ event' = Event("onstop", s, NoOutcome, Absent)
  /\ UNCHANGED <<mediaRecorder, replyAudio, speech, hasSpeech, recordBtn,
                 micLabel, transcript, inputs>>

ServerError(status) ==
  CASE status = 404 -> "Server error: 404"
    [] status = 500 -> "Server error: 500"
    [] OTHER -> "Server error"

\* The message of the Error the try block throws for outcome o.
ErrorMessage(o) ==
  CASE o.kind = "http" ->
         IF o.error # "notjson" /\ Truthy(o.error) THEN o.error
         ELSE ServerError(o.status)
    [] o.kind = "badjson" -> "SyntaxError"
    [] o.kind = "neterr" -> "Failed to fetch"
    [] OTHER -> Absent

\* onstop's catch block in the run of session s.
Catch(s) ==
  /\ transcript' = appendMessage(transcript, "assistant", WarnApology)
  /\ IF hasSpeech
       THEN /\ speech' = Append(speech, [turn |-> s, onend |-> "restart", text |-> DefaultApology])
            /\ statusText' = "Speaking fallback~"
            /\ statusDot' = setStatus("playing")
            /\ UNCHANGED <<recordBtn, micLabel>>
       ELSE /\ statusText' = "Error occurred."
            /\ statusDot' = setStatus("idle")
            /\ recordBtn' = [recordBtn EXCEPT !.disabled = FALSE, !.recording = FALSE]
            /\ micLabel' = "Start Recording"
            /\ UNCHANGED speech

\* The chain with its first two tests in the other order.
chainBranch_fallbackFirst(data) ==
  IF Truthy(data.fallback_audio_url) THEN 2
  ELSE IF Truthy(data.audio_url) THEN 1
  ELSE IF hasSpeech THEN 3
  ELSE 4

\* The branch of the playback chain the nested ifs of onstop take.
chainBranch(data) ==
  IF Truthy(data.audio_url) THEN 1
  ELSE IF Truthy(data.fallback_audio_url) THEN 2
  ELSE IF hasSpeech THEN 3
  ELSE 4

\* fbText without its default.
fbText_noDefault(data) == data.fallback_text

fbText(data) ==
  IF Truthy(data.fallback_text) THEN data.fallback_text ELSE DefaultApology

\* The two conditional appends in the other order.
updateTranscript_replyFirst(log, data) ==
  LET l1 == IF Truthy(data.llm_text)
              THEN appendMessage(log, "assistant", data.llm_text) ELSE log
  IN IF Truthy(data.transcription)
       THEN appendMessage(l1, "user", data.transcription) ELSE l1

\* The log after the two conditional appends of a parsed response.
updateTranscript(log, data) ==
  LET l1 == IF Truthy(data.transcription)
              THEN appendMessage(log, "user", data.transcription) ELSE log
  IN IF Truthy(data.llm_text)
       THEN appendMessage(l1, "assistant", data.llm_text) ELSE l1

\* onstop from the parsed 2xx body to its next await or its end.
OnResponse(s, data) ==
  LET log == updateTranscript(transcript, data)
      b == chainBranch(data)
  IN CASE b = 1 ->
            /\ replyAudio' = [src |-> data.audio_url, onended |-> s, state |-> "loading"]
            /\ statusText' = "Playing reply..."
            /\ statusDot' = setStatus("Playing")
            /\ sess' = [sess EXCEPT ![s] = "play"]
            /\ transcript' = log
            /\ UNCHANGED <<speech, recordBtn, micLabel>>
       [] b = 2 ->
            /\ replyAudio' = [src |-> data.fallback_audio_url, onended |-> s, state |-> "loading"]
            /\ statusText' = "Playing fallback..."
            /\ statusDot' = setStatus("Playing")
            /\ sess' = [sess EXCEPT ![s] = "play"]
            /\ transcript' = log
            /\ UNCHANGED <<speech, recordBtn, micLabel>>
       [] b = 3 ->
            /\ speech' = Append(speech, [turn |-> s, onend |-> "reset", text |-> fbText(data)])
            /\ statusText' = "Speaking fallback..."
            /\ statusDot' = setStatus("Playing")
            /\ sess' = [sess EXCEPT ![s] = "done"]
            /\ transcript' = log
            /\ UNCHANGED <<replyAudio, recordBtn, micLabel>>
       [] OTHER ->
            /\ statusText' = "Fallback message shown."
            /\ statusDot' = setStatus("idle")
            /\ transcript' = appendMessage(log, "assistant", fbText(data))
            /\ sess' = [sess EXCEPT ![s] = "done"]
            /\ UNCHANGED <<replyAudio, speech, recordBtn, micLabel>>

\* The fetch of session s settles with outcome o; onstop runs on.
FetchSettles(s, o) ==
  /\ sess[s] = "fetch"
  /\ IF o.kind = "ok"
       THEN OnResponse(s, o.data)
       ELSE /\ Catch(s)
            /\ sess' = [sess EXCEPT ![s] = "failed"]
            /\ UNCHANGED replyAudio
  /\ event' = Event("response", s, o, ErrorMessage(o))
  /\ UNCHANGED <<mediaRecorder, chunks, blob, hasSpeech, inputs>>

\* replyAudio.play() resolves: playback has begun and onstop returns.
PlayResolves(s) ==
  /\ sess[s] = "play"
  /\ replyAudio.onended = s
  /\ replyAudio.state = "loading"
  /\ replyAudio' = [replyAudio EXCEPT !.state = "playing"]
  /\ sess' = [sess EXCEPT ![s] = "done"]
  /\ event' = Event("play", s, NoOutcome, Absent)
  /\ UNCHANGED <<mediaRecorder, chunks, blob, speech, hasSpeech, recordBtn,
                 micLabel, statusText, statusDot, transcript, inputs>>

\* replyAudio.play() rejects (not allowed, not supported, or aborted by a
\* later load on the element): onstop's catch block runs.
PlayRejects(s) ==
  /\ sess[s] = "play"
  /\ replyAudio' = IF replyAudio.onended = s /\ replyAudio.state = "loading"
                     THEN [replyAudio EXCEPT !.state = "failed"]
                     ELSE replyAudio
  /\ Catch(s)
  /\ sess' = [sess EXCEPT ![s] = "failed"]
  /\ event' = Event("playfailed", s, NoOutcome, "play() rejected")
  /\ UNCHANGED <<mediaRecorder, chunks, blob, hasSpeech, inputs>>

\* onended doing what its comment says, "restart recording after playback".
AudioEnded_restart ==
  /\ replyAudio.state = "playing"
  /\ replyAudio' = [replyAudio EXCEPT !.state = "ended"]
  /\ toggleRecording(TRUE)
  /\ event' = Event("ended", replyAudio.onended, NoOutcome, Absent)
  /\ UNCHANGED <<mediaRecorder, chunks, blob, speech, hasSpeech, transcript, inputs>>

\* The element fires ended: the registered onended handler runs.
AudioEnded ==
  /\ replyAudio.state = "playing"
  /\ replyAudio' = [replyAudio EXCEPT !.state = "ended"]
  /\ ResetUI
  /\ event' = Event("ended", replyAudio.onended, NoOutcome, Absent)
  /\ UNCHANGED <<mediaRecorder, chunks, sess, blob, speech, hasSpeech, transcript, inputs>>

\* The element fires error during playback: no handler is registered.
AudioError ==
  /\ replyAudio.state = "playing"
  /\ replyAudio' = [replyAudio EXCEPT !.state = "failed"]
  /\ event' = Event("audioerror", replyAudio.onended, NoOutcome, Absent)
  /\ UNCHANGED <<mediaRecorder, chunks, sess, blob, speech, hasSpeech, recordBtn,
                 micLabel, statusText, statusDot, transcript, inputs>>

\* The utterance at the head of the queue fires end: its onend runs.
SpeechEnd ==
  /\ speech # <<>>
  /\ speech' = Tail(speech)
  /\ IF Head(speech).onend = "reset"
       THEN ResetUI /\ UNCHANGED sess
       ELSE toggleRecording(TRUE)
  /\ event' = Event("speechend", Head(speech).turn, NoOutcome, Absent)
  /\ UNCHANGED <<mediaRecorder, chunks, blob, replyAudio, hasSpeech, transcript, inputs>>

\* The utterance at the head of the queue fires error: no handler.
SpeechError ==
  /\ speech # <<>>
  /\ speech' = Tail(speech)
  /\ event' = Event("speecherror", Head(speech).turn, NoOutcome, Absent)
  /\ UNCHANGED <<mediaRecorder, chunks, sess, blob, replyAudio, hasSpeech, recordBtn,
                 micLabel, statusText, statusDot, transcript, inputs>>

Click == ClickWithin(MaxInputs)

ClickDeep == ClickWithin(MaxInputsDeep)

\* Every task the browser runs on its own: settlements and media events.
System ==
  \/ \E s \in Sessions : GetUserMediaGranted(s)
  \/ \E s \in Sessions : GetUserMediaDenied(s)
  \/ \E s \in Sessions : RecorderStopTask(s)
  \/ \E s \in Sessions : \E o \in Outcomes : FetchSettles(s, o)
  \/ \E s \in Sessions : PlayResolves(s)
  \/ \E s \in Sessions : PlayRejects(s)
  \/ AudioEnded
  \/ AudioError
  \/ SpeechEnd
  \/ SpeechError

Next == Click \/ System

Spec == Init /\ [][Next]_vars

NextDeep == ClickDeep \/ System

SpecDeep == Init /\ [][NextDeep]_vars

\* startRecording and stopRecording are globals of the page: SpecCalls lets
\* the environment call them directly, in any state.
CallStartRecording ==
  /\ inputs < MaxInputs
  /\ startRecording
  /\ inputs' = inputs + 1
  /\ event' = Event("startRecording", 0, NoOutcome, Absent)
  /\ UNCHANGED <<mediaRecorder, chunks, blob, replyAudio, speech, hasSpeech, transcript>>

CallStopRecording ==
  /\ inputs < MaxInputs
  /\ stopRecording
  /\ inputs' = inputs + 1
  /\ event' = Event("stopRecording", 0, NoOutcome, Absent)
  /\ UNCHANGED <<mediaRecorder, chunks, blob, replyAudio, speech, hasSpeech, transcript>>

NextCalls == Next \/ CallStartRecording \/ CallStopRecording

SpecCalls == Init /\ [][NextCalls]_vars

\* The backend answers, a settled promise runs its continuation, a started
\* playback or utterance ends or fails; the user owes no click.
Fairness ==
  /\ WF_vars(\E s \in Sessions : GetUserMediaGranted(s) \/ GetUserMediaDenied(s))
  /\ WF_vars(\E s \in Sessions : RecorderStopTask(s))
  /\ WF_vars(\E s \in Sessions : \E o \in Outcomes : FetchSettles(s, o))
  /\ WF_vars(\E s \in Sessions : PlayResolves(s) \/ PlayRejects(s))
  /\ WF_vars(AudioEnded \/ AudioError)
  /\ WF_vars(SpeechEnd \/ SpeechError)

FairSpec == Init /\ [][Next]_vars /\ Fairness

\* ---- Orchestrator states, read off the program state ----

\* The state the orchestrator shows: every transition of the script is
\* marked by a setStatus call, and the label tells which.
StatusState ==
  CASE statusText = "Listening~" -> "Recording"
    [] statusText = "Processing~" -> "Processing"
    [] statusText \in {"Playing reply...", "Playing fallback...",
                       "Speaking fallback...", "Speaking fallback~"} -> "Playing"
    [] OTHER -> "Idle"

\* The phase the turn of session s is in.
Recording(s) == sess[s] = "recording"
Processing(s) == sess[s] \in {"stopQueued", "fetch"}
Playing(s) ==
  \/ sess[s] = "play"
  \/ replyAudio.onended = s /\ replyAudio.state \in {"loading", "playing"}
  \/ \E i \in 1..Len(speech) : speech[i].turn = s

Phase(s) ==
  IF Recording(s) THEN "Recording"
  ELSE IF Processing(s) THEN "Processing"
  ELSE IF Playing(s) THEN "Playing"
  ELSE "Idle"

\* The microphone stream of session s is live: getUserMedia resolved with
\* it, and no line of the script stops its tracks (MediaRecorder.stop() ends
\* the recording, not the stream).
StreamOpen(s) == sess[s] \in {"recording", "stopQueued", "fetch", "play", "done", "failed"}

TypeOK ==
  /\ mediaRecorder \in 0..MaxSessions
  /\ NextSession \in Sessions
  /\ \A s \in Sessions : sess[s] = "none" <=> s >= NextSession
  /\ Len(speech) <= MaxSessions

\* ---- Claims ----

Last(seq) == seq[Len(seq)]

\* The bubbles the step appends to the conversation log.
Appended == SubSeq(transcript', Len(transcript) + 1, Len(transcript'))

InRange(x, seq) == \E i \in 1..Len(seq) : seq[i] = x

\* C1: whenever the orchestrator shows Processing or Playing it later shows
\* Idle, if the backend answers and every started playback or utterance
\* ends or fails (the user may stay away).
CE_C1 == (StatusState \in {"Processing", "Playing"}) ~> (StatusState = "Idle")

\* C2: at most one submission is sent and not yet answered or failed.
CE_C2 == Cardinality({s \in Sessions : sess[s] = "fetch"}) <= 1

\* C3: the record button is disabled exactly when the orchestrator is in
\* Processing or Playing.
CE_C3 == recordBtn.disabled <=> (StatusState \in {"Processing", "Playing"})

\* C4: at most one of Recording, Processing, Playing is active among the
\* turns, and a capture session starts recording only when no other turn is
\* in Processing or Playing.
ActivePhases == {Phase(s) : s \in Sessions} \ {"Idle"}

EntersRecordingFromIdle ==
  \A s \in Sessions :
    (sess[s] # "recording" /\ sess'[s] = "recording")
      => \A r \in Sessions \ {s} : ~Processing(r) /\ ~Playing(r)

CE_C4 == [](Cardinality(ActivePhases) <= 1) /\ [][EntersRecordingFromIdle]_vars

\* C5: a parsed 2xx response runs exactly the first matching branch of the
\* chain: audio_url, else fallback_audio_url, else local speech of
\* fallback_text or the default, else the same text as an assistant bubble;
\* the other three are not attempted.
ChainRunsFirstMatch ==
  LET s == event'.id
      d == event'.outcome.data
      text == IF d.fallback_text # Absent THEN d.fallback_text ELSE DefaultApology
      plays(url) == replyAudio' = [src |-> url, onended |-> s, state |-> "loading"]
      noAudio == replyAudio' = replyAudio
      speaks == /\ Len(speech') = Len(speech) + 1
                /\ Last(speech').text = text
                /\ Last(speech').turn = s
                /\ SubSeq(speech', 1, Len(speech)) = speech
      noSpeech == speech' = speech
      shows == InRange(<<"assistant", text>>, Appended)
  IN (event'.op = "response" /\ event'.outcome.kind = "ok") =>
       IF d.audio_url # Absent
         THEN plays(d.audio_url) /\ noSpeech /\ ~shows
       ELSE IF d.fallback_audio_url # Absent
         THEN plays(d.fallback_audio_url) /\ noSpeech /\ ~shows
       ELSE IF hasSpeech
         THEN speaks /\ noAudio /\ ~shows
       ELSE shows /\ noAudio /\ noSpeech

T_C5 == [][ChainRunsFirstMatch]_vars

\* C5 witness: a response carrying all three playback fields, with local
\* speech available, has just been handled and only its audio_url is loading.
W_C5 ==
  /\ event.op = "response"
  /\ event.outcome.kind = "ok"
  /\ event.outcome.data.audio_url # Absent
  /\ event.outcome.data.fallback_audio_url # Absent
  /\ event.outcome.data.fallback_text # Absent
  /\ hasSpeech
  /\ replyAudio.src = event.outcome.data.audio_url
  /\ replyAudio.state = "loading"
  /\ speech = <<>>

\* C6: after a non-2xx response the reason shown to the user is the body's
\* error string, or "Server error: <status>" when there is none.
CE_C6 ==
  (event.op = "response" /\ event.outcome.kind = "http") =>
    LET o == event.outcome
        reason == IF o.error \notin {"notjson", Absent} THEN o.error
                  ELSE ServerError(o.status)
    IN Last(transcript)[2] = reason \/ statusText = reason

\* C7: when the apology of a failed submission has been spoken, the
\* orchestrator is Idle and no capture session has been started.
CE_C7 ==
  [][(event'.op = "speechend" /\ sess[event'.id] = "failed")
       => (sess' = sess /\ StatusState' = "Idle")]_vars

\* C8: a response with no audio_url, fallback_audio_url or fallback_text, on
\* a page without speech synthesis, appends exactly one assistant bubble with
\* the default apology, starts no playback or utterance, and leaves the
\* orchestrator Idle with the handler finished.
DegradedResponseShown ==
  LET d == event'.outcome.data
      apologies == {i \in 1..Len(Appended) : Appended[i] = <<"assistant", DefaultApology>>}
  IN (/\ event'.op = "response"
      /\ event'.outcome.kind = "ok"
      /\ d.audio_url = Absent
      /\ d.fallback_audio_url = Absent
      /\ d.fallback_text = Absent
      /\ ~hasSpeech)
     => /\ Cardinality(apologies) = 1
        /\ Last(transcript') = <<"assistant", DefaultApology>>
        /\ replyAudio' = replyAudio
        /\ speech' = speech
        /\ StatusState' = "Idle"
        /\ sess'[event'.id] = "done"

T_C8 == [][DegradedResponseShown]_vars

\* C8 witness: such a response has just been handled.
W_C8 ==
  /\ event.op = "response"
  /\ event.outcome.kind = "ok"
  /\ event.outcome.data.audio_url = Absent
  /\ event.outcome.data.fallback_audio_url = Absent
  /\ event.outcome.data.fallback_text = Absent
  /\ ~hasSpeech
  /\ Last(transcript) = <<"assistant", DefaultApology>>
  /\ statusText = "Fallback message shown."

\* C9: startRecording called while the current recorder is recording changes
\* nothing: no microphone request, no new session, the buffer, the recorder
\* handle and the UI as before; so does the forced start that follows the
\* spoken apology of a failed turn.
StartWhileRecordingIsNoOp ==
  /\ (event'.op = "startRecording" /\ IsRecording) => UNCHANGED progVars
  /\ (event'.op = "speechend" /\ sess[event'.id] = "failed" /\ IsRecording)
       => UNCHANGED <<mediaRecorder, chunks, sess, blob, replyAudio, recordBtn,
                      micLabel, statusText, statusDot, transcript>>

T_C9 == [][StartWhileRecordingIsNoOp]_vars

\* C9 witness: three inputs were made and only one session was ever
\* requested, which is still recording: the last two inputs were
\* startRecording calls made while it recorded.
W_C9 ==
  /\ event.op = "startRecording"
  /\ inputs = 3
  /\ IsRecording
  /\ Cardinality({s \in Sessions : sess[s] # "none"}) = 1
  /\ Cardinality({s \in Sessions : sess[s] = "recording"}) = 1

\* C10: stopRecording called when there is no recorder, or the current one
\* is not recording, changes nothing.
T_C10 ==
  [][(event'.op = "stopRecording" /\ ~IsRecording) => UNCHANGED progVars]_vars

\* C10 witness: stopRecording has just been called while the current
\* session, stopped earlier, had its submission in flight.
W_C10 ==
  /\ event.op = "stopRecording"
  /\ mediaRecorder # 0
  /\ sess[mediaRecorder] = "fetch"

\* C11: when getUserMedia rejects, the request ends denied and nothing else
\* about the sessions changes (no recorder, no submission); the log gets one
\* assistant bubble with the microphone notice, the status reads "Mic access
\* denied." (Idle), the button stays enabled with the start label; and a
\* click made after a denial, while the current recorder is not recording,
\* requests the microphone again.
DeniedSurfacesNotice ==
  LET s == event'.id
  IN /\ (event'.op = "denied") =>
          /\ sess[s] = "pending"
          /\ sess' = [sess EXCEPT ![s] = "denied"]
          /\ mediaRecorder' = mediaRecorder
          /\ chunks' = chunks
          /\ blob' = blob
          /\ Appended = << <<"assistant", MicDenied>> >>
          /\ statusText' = "Mic access denied."
          /\ StatusState' = "Idle"
          /\ ~recordBtn'.disabled
          /\ micLabel' = "Start Recording"
     /\ (/\ event'.op = "click"
         /\ ~IsRecording
         /\ \E r \in Sessions : sess[r] = "denied")
          => sess' = [sess EXCEPT ![NextSession] = "pending"]

T_C11 == [][DeniedSurfacesNotice]_vars

\* C11 witness: the first request was denied, the notice is the last bubble,
\* and the click that followed has a second request pending.
W_C11 ==
  /\ event.op = "click"
  /\ sess[1] = "denied"
  /\ sess[2] = "pending"
  /\ Last(transcript) = <<"assistant", MicDenied>>
  /\ statusText = "Mic access denied."

\* C12: handling a parsed 2xx response appends a user bubble exactly when the
\* body has a transcription and an assistant bubble exactly when it has
\* llm_text, the user bubble first; whatever the chain adds to the log (the
\* plain-text fallback, when nothing is played or spoken) comes after them.
TextBubblesFirst ==
  LET d == event'.outcome.data
      u == IF d.transcription # Absent THEN << <<"user", d.transcription>> >> ELSE <<>>
      a == IF d.llm_text # Absent THEN << <<"assistant", d.llm_text>> >> ELSE <<>>
      n == Len(u) + Len(a)
  IN (event'.op = "response" /\ event'.outcome.kind = "ok") =>
       /\ Len(Appended) >= n
       /\ SubSeq(Appended, 1, n) = u \o a
       /\ Len(Appended) <= n + 1
       /\ Len(Appended) = n + 1 => (replyAudio' = replyAudio /\ speech' = speech)
       /\ Len(Appended) = n + 1 => Appended[n + 1][1] = "assistant"

T_C12 == [][TextBubblesFirst]_vars

\* C12 witness: {transcription: "hello", llm_text: "hi there", audio_url} has
\* just been handled: the log ends user "hello", assistant "hi there", and
\* the audio is loading.
W_C12 ==
  /\ event.op = "response"
  /\ event.outcome.kind = "ok"
  /\ event.outcome.data.transcription = "hello"
  /\ event.outcome.data.llm_text = "hi there"
  /\ event.outcome.data.audio_url = "/a.mp3"
  /\ Len(transcript) = 3
  /\ transcript[2] = <<"user", "hello">>
  /\ transcript[3] = <<"assistant", "hi there">>
  /\ replyAudio.src = "/a.mp3"
  /\ replyAudio.state = "loading"

\* C13: in the first turn, while the user does nothing but start it and stop
\* it, with a response carrying audio_url and a playback that ends, every
\* step keeps the orchestrator's state or moves it one place along
\* Idle, Recording, Processing, Playing, Idle: the grant enters Recording,
\* the stop click Processing, the response Playing, the ended event Idle,
\* and the ended event starts no capture session.
OneTurnSequence ==
  LET op == event'.op
      from == StatusState
      to == StatusState'
  IN (sess[2] = "none") =>
       /\ (op = "click" /\ sess[1] = "none") =>
            from = "Idle" /\ to = "Idle" /\ sess'[1] = "pending"
       /\ op = "granted" =>
            from = "Idle" /\ to = "Recording" /\ sess'[1] = "recording"
       /\ (op = "click" /\ sess[1] = "recording") =>
            from = "Recording" /\ to = "Processing" /\ sess'[1] = "stopQueued"
       /\ op = "onstop" =>
            from = "Processing" /\ to = "Processing" /\ sess'[1] = "fetch"
       /\ (/\ op = "response"
           /\ event'.outcome.kind = "ok"
           /\ event'.outcome.data.audio_url # Absent) =>
            from = "Processing" /\ to = "Playing" /\ sess'[1] = "play"
       /\ op = "play" =>
            from = "Playing" /\ to = "Playing" /\ sess'[1] = "done"
       /\ op = "ended" =>
            /\ from = "Playing"
            /\ to = "Idle"
            /\ sess' = sess
            /\ mediaRecorder' = mediaRecorder
            /\ ~IsRecording'

CE_C14 ==
  \A s \in Sessions :
    sess[s] \in {"fetch", "play", "done", "failed"} => blob[s] = <<s>>

\* C15: a playback in progress always has a completion handler, and the
\* completion handler that fires belongs to the latest turn, puts the
\* orchestrator in Idle and starts nothing.
CompletionReturnsToIdle ==
  (event'.op \in {"ended", "speechend"}) =>
    /\ event'.id = NextSession - 1
    /\ StatusState' = "Idle"
    /\ sess' = sess

CE_C15 ==
  /\ [](replyAudio.state \in {"loading", "playing"} => replyAudio.onended \in Sessions)
  /\ [][CompletionReturnsToIdle]_vars

\* C16: a failed playback (play() rejected, the element's error event, an
\* utterance's error event) appends one assistant bubble and leaves the
\* orchestrator Idle or with a fallback utterance newly queued.
PlaybackFailureCaught ==
  (event'.op \in {"playfailed", "audioerror", "speecherror"}) =>
    /\ Len(Appended) = 1
    /\ Appended[1][1] = "assistant"
    /\ StatusState' = "Idle" \/ Len(speech') > Len(speech)

CE_C16 == [][PlaybackFailureCaught]_vars

\* C17: when a capture session acquires the microphone, no stream of an
\* earlier session is still open; when a response sets the reply audio
\* source, no playback is in progress on the element.
ResourcesReleasedBeforeReuse ==
  /\ (event'.op = "granted") =>
       \A r \in Sessions \ {event'.id} : ~StreamOpen(r)
  /\ (event'.op = "response" /\ replyAudio'.onended # replyAudio.onended) =>
       replyAudio.state \notin {"loading", "playing"}

CE_C17 == [][ResourcesReleasedBeforeReuse]_vars

\* C18: at most one capture session is recording, and a session that is
\* recording is the one the script holds and can stop.
CE_C18 ==
  /\ Cardinality({s \in Sessions : sess[s] = "recording"}) <= 1
  /\ \A s \in Sessions : sess[s] = "recording" => mediaRecorder = s

\* C19: the toggle's label is "Stop Recording" exactly when the current
\* capture session is recording.
CE_C19 == (micLabel = "Stop Recording") <=> IsRecording

\* C20: the dot carries the class of the state the orchestrator shows:
\* playing in Playing, recording in Recording, neither of the two
\* otherwise, and never more than one class.
CE_C20 ==
  /\ StatusState = "Playing" => "playing" \in statusDot
  /\ StatusState = "Recording" => "recording" \in statusDot
  /\ StatusState \in {"Idle", "Processing"} => statusDot \cap {"recording", "playing"} = {}
  /\ Cardinality(statusDot) <= 1

====
